---- MODULE Spec2Model ----
(***************************************************************************)
(* Guest boot construction (guest_boot_init.c) and the I/O port dispatcher *)
(* (ioports.h) of libsel4vmmplatsupport, as a state machine.               *)
(*                                                                         *)
(* Guest-physical addresses are scaled: the 4 GiB limit of the E820 map    *)
(* (0x100000000) is FourGiB == AddrTop, a 32-bit field holds x % FourGiB,  *)
(* and the E820 table holds E820MAX entries (128 in e820.h, scaled with    *)
(* the address space).  Every guest-physical address the VMM hands to this *)
(* code lies below 4 GiB, as the E820 map itself presumes.                 *)
(*                                                                         *)
(* assert() is the C library's: a build with NDEBUG compiles it out (the   *)
(* source marks err UNUSED for that build), so the build flavour ndebug is *)
(* part of the state and both flavours are explored.                       *)
(***************************************************************************)
EXTENDS Integers, Sequences, FiniteSets

\* ------------------------------------------------------------------ bounds
AddrTop == 5
MaxRegions == 2
MaxCmdLen == 1
MaxPort == 2
E820MAX == 4

\* ------------------------------------------------------ program constants
FourGiB == AddrTop
PAGE_SIZE_4K == 4096
FbAlign == 65536
LowMemTop == 49152
VesaMode == 35
HdrS == 1400005704
BootFlag == 43605
LoaderUndefined == 255
RootDevRam0 == 256
Version204 == 516
Version202 == 514

VARIABLES
    ndebug,         \* build flavour: TRUE when assert() is compiled out (NDEBUG)
    config_vesa,    \* config_set(CONFIG_VMM_VESA_FRAMEBUFFER)
    ram_regions,    \* vm->mem.ram_regions[0 .. num_ram_regions-1]
    e820_ret,       \* what make_guest_e820_map left behind, or NotCalled
    pc,             \* position in vmm_plat_init_guest_boot_structure
    args,           \* its arguments
    err,            \* its local err
    guest_cmd_addr, \* its local guest_cmd_addr
    guest_cmd_size, \* its local guest_cmd_size
    vm_boot_info,   \* vm->arch.guest_boot_info.boot_info
    boot_info,      \* make_guest_boot_info's local struct boot_params
    guest_mem,      \* guest RAM: allocation address -> what was written there
    trace,          \* history: what each step did and how its collaborators answered
    vcpu,           \* the vCPU's context registers and VMCS guest RIP
    io_list,        \* vmm_io_port_list_t: ioports[0 .. num_ioports-1]
    io_call         \* history: the last port-table call and its outcome

bootvars == <<pc, args, err, guest_cmd_addr, guest_cmd_size, vm_boot_info,
              boot_info, guest_mem, trace, vcpu>>
iovars == <<io_list, io_call>>
vars == <<ndebug, config_vesa, ram_regions, e820_ret, pc, args, err, guest_cmd_addr,
          guest_cmd_size, vm_boot_info, boot_info, guest_mem, trace, vcpu,
          io_list, io_call>>

NotCalled == [called |-> FALSE]

\* (uint32_t) x, (unsigned int) x, and a store into a 32-bit field.
U32(x) == x % FourGiB

\* ------------------------------------------------- guest RAM region lists
Region == {r \in [start : 0 .. FourGiB - 1, size : 1 .. FourGiB] :
             r.start + r.size <= FourGiB}

SortedDisjoint(rs) ==
    \A i \in 1 .. Len(rs) - 1 : rs[i].start + rs[i].size <= rs[i + 1].start

RegionLists ==
    UNION {{rs \in [1 .. n -> Region] : SortedDisjoint(rs)} : n \in 1 .. MaxRegions}

\* --------------------------------------------------- make_guest_e820_map
\* The walk's state: map is e820[0 .. entry] (map[k + 1] is e820[k]), failed
\* names the assert that stopped the walk ("" while it runs), and oob says
\* whether an entry was written at an index >= E820MAX.
E820Start ==
    [map |-> <<[addr |-> 0, size |-> 0, type |-> "E820_RESERVED"]>>,
     entry |-> 0, failed |-> "", oob |-> FALSE]

\* entry++; assert(entry < E820MAX); e820[entry].addr = ...; e820[entry].type = ...
\* The new entry's size is what the zeroed boot_params held: 0.
E820NewEntry(st, nd, addr, type, line) ==
    IF st.entry + 1 >= E820MAX /\ ~nd
    THEN [st EXCEPT !.failed = line]
    ELSE [st EXCEPT !.entry = st.entry + 1,
                    !.map = Append(st.map, [addr |-> addr, size |-> 0, type |-> type]),
                    !.oob = st.oob \/ (st.entry + 1 >= E820MAX)]

E820SetSize(st, size) ==
    IF st.failed # "" THEN st ELSE [st EXCEPT !.map[st.entry + 1].size = size]

E820Cur(st) == st.map[st.entry + 1]

\* Lines 163-168: finish the open entry unless it is zero sized.
E820Finish(st, nd) ==
    IF st.failed = "" /\ E820Cur(st).size # 0
    THEN E820NewEntry(st, nd, E820Cur(st).addr + E820Cur(st).size,
                      "E820_RESERVED", "assert165")
    ELSE st

\* Lines 169-175: pad up to the region, then open a RAM entry at its start.
E820Pad(st, nd, r) ==
    IF st.failed # "" THEN st
    ELSE E820NewEntry(E820SetSize(st, r.start - E820Cur(st).addr), nd,
                      r.start, "E820_RAM", "assert173")

\* One iteration of the loop over the RAM regions (lines 157-179).
E820Region(st, nd, r) ==
    IF st.failed # "" THEN st
    ELSE LET opened == IF E820Cur(st).addr + E820Cur(st).size # r.start
                       THEN E820Pad(E820Finish(st, nd), nd, r)
                       ELSE st
         IN  IF opened.failed # "" THEN opened
             ELSE E820SetSize(opened, r.start - E820Cur(opened).addr + r.size)

RECURSIVE E820Loop(_, _, _, _)
E820Loop(st, nd, rs, i) ==
    IF i > Len(rs) THEN st ELSE E820Loop(E820Region(st, nd, rs[i]), nd, rs, i + 1)

\* Lines 180-185: the entry that runs from the last one's end to 4 GiB.
E820Final(st, nd) ==
    IF st.failed # "" THEN st
    ELSE LET n == E820NewEntry(st, nd, E820Cur(st).addr + E820Cur(st).size,
                               "E820_RESERVED", "assert182")
         IN  E820SetSize(n, FourGiB - E820Cur(n).addr)

\* Lines 186-191: assert(e820[i].addr < e820[i].addr + e820[i].size), 0 <= i <= entry.
E820Print(st, nd) ==
    IF st.failed = "" /\ ~nd
       /\ \E k \in 1 .. st.entry + 1 : ~(st.map[k].addr < st.map[k].addr + st.map[k].size)
    THEN [st EXCEPT !.failed = "assert190"]
    ELSE st

\* make_guest_e820_map(e820, guest_memory) under build flavour nd: the entries
\* written, the value returned (entry + 1) and whether it returned at all.
make_guest_e820_map(rs, nd) ==
    LET st0 == IF Len(rs) > 0 \/ nd THEN E820Start
               ELSE [E820Start EXCEPT !.failed = "assert156"]
        st  == E820Print(E820Final(E820Loop(st0, nd, rs, 1), nd), nd)
    IN  [called |-> TRUE, map |-> st.map, count |-> st.entry + 1,
         returned |-> st.failed = "", failed |-> st.failed, oob |-> st.oob]

\* ------------------------------------------------------ collaborators
\* vm_ram_allocate(vm, bytes): 0, or the address of fresh guest RAM (here the
\* lowest address not handed out before).
vm_ram_allocate(used) ==
    {0} \cup (LET free == (1 .. FourGiB - 1) \ used
              IN  IF free = {} THEN {}
                  ELSE {CHOOSE a \in free : \A b \in free : a <= b})

\* vm_ram_touch(vm, addr, size, callback, cookie): 0 after the callback has
\* copied size bytes to addr, or an error with nothing copied.
vm_ram_touch == {0, -1}

Allocated == {a \in DOMAIN guest_mem : guest_mem[a].kind # "free"}

\* ------------------------------------------------------ arithmetic macros
ROUND_DOWN(n, b) == n - (n % b)
ROUND_UP(n, b) == ((n + b - 1) \div b) * b

\* ------------------------------------------------------------- inputs
CmdLines == UNION {[1 .. n -> {"c"}] : n \in 0 .. MaxCmdLen}

Args == [cmdline : CmdLines,
         guest_kernel_load_addr : {1, 2},
         guest_kernel_alignment : {1},
         guest_ramdisk_load_addr : {0, FourGiB - 2},
         guest_ramdisk_size : {0, 3}]

NoArgs == [cmdline |-> <<>>, guest_kernel_load_addr |-> 0, guest_kernel_alignment |-> 0,
           guest_ramdisk_load_addr |-> 0, guest_ramdisk_size |-> 0]

\* A local that was never assigned, and the values a read of it may give.
Indeterminate == -1
ReadLocal(x) == IF x = Indeterminate THEN {0, FourGiB - 1} ELSE {x}

\* The region lists the booting VM is run with.
BootRegionLists ==
    {rs \in RegionLists :
        \A i \in 1 .. Len(rs) : rs[i].size = 1 /\ rs[i].start \in {0, 1, FourGiB - 1}}

\* seL4_X86_BootInfo_VBE as the platform reports it: one with the protected
\* mode interface above 0xc000, one with it below.
VbeInfos ==
    {[vbeInterfaceSeg |-> seg, vbeInterfaceOff |-> 16, vbeInterfaceLen |-> 100,
      vbeModeInfoBlock |->
        [bytesPerScanLine |-> 4096, xRes |-> 1024, yRes |-> 768, bitsPerPixel |-> 32,
         planes |-> 1, physBasePtr |-> FourGiB - 1,
         redLen |-> 8, redOff |-> 16, greenLen |-> 8, greenOff |-> 8,
         blueLen |-> 8, blueOff |-> 0, rsvdLen |-> 8, rsvdOff |-> 24]] :
     seg \in {0, 49152}}

NoVbe == [vbeInterfaceSeg |-> 0, vbeInterfaceOff |-> 0, vbeInterfaceLen |-> 0,
          vbeModeInfoBlock |->
            [bytesPerScanLine |-> 0, xRes |-> 0, yRes |-> 0, bitsPerPixel |-> 0,
             planes |-> 0, physBasePtr |-> 0,
             redLen |-> 0, redOff |-> 0, greenLen |-> 0, greenOff |-> 0,
             blueLen |-> 0, blueOff |-> 0, rsvdLen |-> 0, rsvdOff |-> 0]]

\* How the reservation and mapping collaborators answer one call each:
\* vm_reserve_memory_at (non-NULL?), map_ut_alloc_reservation (0 or error),
\* vm_reserve_anon_memory (the base it reports, 0 standing for a NULL
\* reservation, which leaves *addr as it was), and
\* map_ut_alloc_reservation_with_base_paddr (0 or error).
ScreenAnswers ==
    [result : {-1, 0}, vbe : VbeInfos, reserve_at : BOOLEAN, map : {0, -1},
     anon : {0, FourGiB - 2}, map_base : {0, -1}]

\* ------------------------------------------------- struct screen_info
ZeroScreenInfo ==
    [orig_video_mode |-> 0, orig_video_isVGA |-> 0,
     lfb_width |-> 0, lfb_height |-> 0, lfb_depth |-> 0,
     lfb_base |-> 0, lfb_size |-> 0, lfb_linelength |-> 0,
     red_size |-> 0, red_pos |-> 0, green_size |-> 0, green_pos |-> 0,
     blue_size |-> 0, blue_pos |-> 0, rsvd_size |-> 0, rsvd_pos |-> 0,
     vesapm_seg |-> 0, vesapm_off |-> 0, pages |-> 0]

vmm_plat_vesa_fbuffer_size(block) ==
    ROUND_UP(block.bytesPerScanLine * block.yRes, FbAlign)

\* FbMapBase without the reset of line 118.
FbMapBase_NoReset(base, error) == base

\* Lines 115-119: base after map_ut_alloc_reservation_with_base_paddr answered.
FbMapBase(base, error) == IF error # 0 THEN 0 ELSE base

\* Lines 124-143.
PopulateScreenInfo(info, vbe, base, fbuffer_size) ==
    [info EXCEPT
        !.orig_video_isVGA = VesaMode,
        !.lfb_width = vbe.vbeModeInfoBlock.xRes,
        !.lfb_height = vbe.vbeModeInfoBlock.yRes,
        !.lfb_depth = vbe.vbeModeInfoBlock.bitsPerPixel,
        !.lfb_base = U32(base),
        !.lfb_size = fbuffer_size \div 65536,
        !.lfb_linelength = vbe.vbeModeInfoBlock.bytesPerScanLine,
        !.red_size = vbe.vbeModeInfoBlock.redLen,
        !.red_pos = vbe.vbeModeInfoBlock.redOff,
        !.green_size = vbe.vbeModeInfoBlock.greenLen,
        !.green_pos = vbe.vbeModeInfoBlock.greenOff,
        !.blue_size = vbe.vbeModeInfoBlock.blueLen,
        !.blue_pos = vbe.vbeModeInfoBlock.blueOff,
        !.rsvd_size = vbe.vbeModeInfoBlock.rsvdLen,
        !.rsvd_pos = vbe.vbeModeInfoBlock.rsvdOff,
        !.vesapm_seg = vbe.vbeInterfaceSeg,
        !.vesapm_off = vbe.vbeInterfaceOff,
        !.pages = vbe.vbeModeInfoBlock.planes]

\* make_guest_screen_info(vm, info) with the collaborators answering as in o:
\* the block it leaves in *info, and which collaborator was asked what.
make_guest_screen_info(info, cfg, o) ==
    LET vbe == o.vbe
        vesa == cfg /\ o.result # -1
        pm_base == vbe.vbeInterfaceSeg * 16 + vbe.vbeInterfaceOff
        need_pm == vesa /\ pm_base > LowMemTop
        aligned_pm == ROUND_DOWN(pm_base, PAGE_SIZE_4K)
        size == ROUND_UP(vbe.vbeInterfaceLen + (pm_base - aligned_pm), PAGE_SIZE_4K)
        pm_reserve == IF ~need_pm THEN "skipped"
                      ELSE IF o.reserve_at THEN "ok" ELSE "failed"
        pm_map == IF pm_reserve # "ok" THEN "skipped"
                  ELSE IF o.map = 0 THEN "ok" ELSE "failed"
        error == IF ~need_pm THEN 0 ELSE IF o.reserve_at THEN o.map ELSE -1
        try_fb == vesa /\ error = 0
        fbuffer_size == vmm_plat_vesa_fbuffer_size(vbe.vbeModeInfoBlock)
        fb_reserve == IF ~try_fb THEN "skipped"
                      ELSE IF o.anon # 0 THEN "ok" ELSE "failed"
        fb_map == IF fb_reserve # "ok" THEN "skipped"
                  ELSE IF o.map_base = 0 THEN "ok" ELSE "failed"
        base == IF fb_reserve = "ok" THEN FbMapBase(o.anon, o.map_base) ELSE 0
    IN  [info |-> IF base # 0
                  THEN PopulateScreenInfo(info, vbe, base, fbuffer_size)
                  ELSE ZeroScreenInfo,
         asked |-> [vbe_available |-> o.result # -1,
                    vbe |-> IF vesa THEN vbe ELSE NoVbe,
                    pm_at |-> IF need_pm THEN <<aligned_pm, size>> ELSE <<0, 0>>,
                    pm_reserve |-> pm_reserve, pm_map |-> pm_map,
                    fb_reserve |-> fb_reserve, fb_map |-> fb_map,
                    base |-> base,
                    fbuffer_size |-> IF try_fb THEN fbuffer_size ELSE 0]]

NotAsked ==
    [vbe_available |-> FALSE, vbe |-> NoVbe, pm_at |-> <<0, 0>>,
     pm_reserve |-> "skipped", pm_map |-> "skipped",
     fb_reserve |-> "skipped", fb_map |-> "skipped", base |-> 0, fbuffer_size |-> 0]

\* ------------------------------------------------- struct boot_params
ZeroHdr ==
    [header |-> 0, boot_flag |-> 0, type_of_loader |-> 0, code32_start |-> 0,
     kernel_alignment |-> 0, relocatable_kernel |-> FALSE,
     cmd_line_ptr |-> 0, cmdline_size |-> 0,
     ramdisk_image |-> 0, ramdisk_size |-> 0, root_dev |-> 0, version |-> 0]

\* memset(&boot_info, 0, sizeof(struct boot_params)); past_e820_map is the
\* memory that follows e820_map[E820MAX - 1].
ZeroBootParams ==
    [hdr |-> ZeroHdr, screen_info |-> ZeroScreenInfo,
     e820_map |-> <<>>, e820_entries |-> 0, past_e820_map |-> <<>>, alt_mem_k |-> 0]

\* Lines 209-217.
BootInfoHeader(a) ==
    [ZeroBootParams EXCEPT
        !.hdr.header = HdrS,
        !.hdr.boot_flag = BootFlag,
        !.hdr.type_of_loader = LoaderUndefined,
        !.hdr.code32_start = U32(a.guest_kernel_load_addr),
        !.hdr.kernel_alignment = U32(a.guest_kernel_alignment),
        !.hdr.relocatable_kernel = TRUE]

\* Line 224, with the entries of index >= E820MAX landing behind the table.
BootInfoE820(bi, r) ==
    [bi EXCEPT
        !.e820_map = SubSeq(r.map, 1, IF r.count <= E820MAX THEN r.count ELSE E820MAX),
        !.past_e820_map = SubSeq(r.map, E820MAX + 1, r.count),
        !.e820_entries = r.count]

\* Lines 227-233.
BootInfoCmdLine(bi, cmd_addr, cmd_len) ==
    [bi EXCEPT !.hdr.cmd_line_ptr = U32(cmd_addr),
               !.hdr.cmdline_size = U32(cmd_len),
               !.alt_mem_k = 0]

\* BootInfoRamdisk with the two header versions exchanged.
BootInfoRamdisk_VersionsSwapped(bi, guest_ramdisk_load_addr, guest_ramdisk_size) ==
    IF guest_ramdisk_load_addr # 0
    THEN [bi EXCEPT !.hdr.ramdisk_image = U32(guest_ramdisk_load_addr),
                    !.hdr.ramdisk_size = U32(guest_ramdisk_size),
                    !.hdr.root_dev = RootDevRam0,
                    !.hdr.version = Version202]
    ELSE [bi EXCEPT !.hdr.version = Version204]

\* Lines 236-243.
BootInfoRamdisk(bi, guest_ramdisk_load_addr, guest_ramdisk_size) ==
    IF guest_ramdisk_load_addr # 0
    THEN [bi EXCEPT !.hdr.ramdisk_image = U32(guest_ramdisk_load_addr),
                    !.hdr.ramdisk_size = U32(guest_ramdisk_size),
                    !.hdr.root_dev = RootDevRam0,
                    !.hdr.version = Version204]
    ELSE [bi EXCEPT !.hdr.version = Version202]

\* guest_elf_write_address: memcpy(vaddr, cookie + offset, size) of the whole struct.
guest_elf_write_address(cookie) == [kind |-> "boot_params", data |-> cookie]

\* make_guest_cmd_line_continued: the string and its NUL.
make_guest_cmd_line_continued(cmdline) ==
    [kind |-> "cmdline", data |-> Append(cmdline, "NUL")]

Free == [kind |-> "free", data |-> <<>>]

\* NextStep with the copy-out moved ahead of the command line and the ramdisk.
NextStep_CopyEarly(step) ==
    CASE step = "boot_info_hdr" -> "screen_info"
      [] step = "screen_info" -> "e820"
      [] step = "e820" -> "copy_out"
      [] step = "cmd_ptr" -> "ramdisk"
      [] step = "ramdisk" -> "copy_out"

\* The order of make_guest_boot_info's statements after the allocation.
NextStep(step) ==
    CASE step = "boot_info_hdr" -> "screen_info"
      [] step = "screen_info" -> "e820"
      [] step = "e820" -> "cmd_ptr"
      [] step = "cmd_ptr" -> "ramdisk"
      [] step = "ramdisk" -> "copy_out"

\* assert(!err) in vmm_plat_init_guest_boot_structure: where control goes.
AfterAssert(e, nd, next) == IF e # 0 /\ ~nd THEN "aborted" ELSE next

\* vmm_init_guest_thread_state without the store to ESI of line 277.
vmm_init_guest_thread_state_NoEsi(v, bi_addr, guest_entry_addr) ==
    [v EXCEPT !.eax = 0, !.ebx = 0, !.ecx = 0, !.edx = 0,
              !.rip = U32(guest_entry_addr)]

\* Lines 268-277.
vmm_init_guest_thread_state(v, bi_addr, guest_entry_addr) ==
    [v EXCEPT !.eax = 0, !.ebx = 0, !.ecx = 0, !.edx = 0,
              !.rip = U32(guest_entry_addr),
              !.esi = bi_addr]

EntryAddrs == {0, 1, FourGiB - 1}

NoTrace ==
    [ran |-> {}, failed |-> {}, populated |-> {}, bi_copies |-> 0, bi_addr |-> 0,
     screen |-> NotAsked, entry_addr |-> 0, vcpu_inits |-> 0]

FieldGroups == {"hdr", "screen_info", "e820", "cmd_line", "ramdisk"}

\* --------------------------------------------------- I/O port dispatcher
\* ioport_range_t: inclusive start and end port numbers (16 bits, scaled).
Ports == 0 .. MaxPort
IoPortRanges == [start : Ports, end : Ports]

\* ioport_interface_t: the device a cookie and its port_in/port_out stand for.
IoPortInterfaces == {"kbd", "serial"}

\* ioport_entry_t.
IoPortEntry(range, interface) ==
    [range |-> range, interface |-> interface, ioport_type |-> "IOPORT_EMULATED"]

\* RangesIntersect that only looks where the new range starts.
RangesIntersect_StartOnly(r, e) == e.start <= r.start /\ r.start <= e.end

\* Whether the inclusive ranges r and e share a port.
RangesIntersect(r, e) == r.start <= e.end /\ e.start <= r.end

\* The table with entry e put before the first entry that starts after it.
InsertSorted(list, e) ==
    LET k == Cardinality({i \in 1 .. Len(list) : list[i].range.start < e.range.start})
    IN  SubSeq(list, 1, k) \o <<e>> \o SubSeq(list, k + 1, Len(list))

\* vmm_io_port_add_handler(io_list, ioport_range, ioport_interface).
vmm_io_port_add_handler(list, range, interface) ==
    IF range.start > range.end
    THEN [ret |-> "InvalidRangeError", list |-> list]
    ELSE IF \E i \in 1 .. Len(list) : RangesIntersect(range, list[i].range)
    THEN [ret |-> "OverlapError", list |-> list]
    ELSE [ret |-> "Ok", list |-> InsertSorted(list, IoPortEntry(range, interface))]

\* PortCmp with the end of the range left out.
PortCmp_EndExclusive(port_no, e) ==
    IF port_no < e.range.start THEN -1
    ELSE IF port_no >= e.range.end THEN 1
    ELSE 0

\* The comparison the lookup makes of a port with an entry.
PortCmp(port_no, e) ==
    IF port_no < e.range.start THEN -1
    ELSE IF port_no > e.range.end THEN 1
    ELSE 0

\* Binary search of the sorted table: the index of the entry that holds
\* port_no, or 0.
RECURSIVE SearchPort(_, _, _, _)
SearchPort(list, port_no, lo, hi) ==
    IF lo > hi THEN 0
    ELSE LET mid == (lo + hi) \div 2
             c == PortCmp(port_no, list[mid])
         IN  IF c = 0 THEN mid
             ELSE IF c < 0 THEN SearchPort(list, port_no, lo, mid - 1)
             ELSE SearchPort(list, port_no, mid + 1, hi)

\* How a device's port_in or port_out answers a call.
HandlerAnswers == [ok : BOOLEAN, result : {9}]

\* emulate_io_handler(io_port, port_no, is_in, size, data), the handler it
\* calls answering h: the value returned (0 handled, 1 unhandled, -1 error),
\* *data afterwards, and the handler calls made.
emulate_io_handler(list, port_no, is_in, size, data, h) ==
    LET k == SearchPort(list, port_no, 1, Len(list))
    IN  IF k = 0
        THEN [ret |-> 1, data |-> data, invoked |-> <<>>]
        ELSE LET call == [interface |-> list[k].interface,
                          fn |-> IF is_in THEN "port_in" ELSE "port_out",
                          port_no |-> port_no, size |-> size,
                          value |-> IF is_in THEN 0 ELSE data]
             IN  [ret |-> IF h.ok THEN 0 ELSE -1,
                  data |-> IF is_in /\ h.ok THEN h.result ELSE data,
                  invoked |-> <<call>>]

NoIoCall ==
    [op |-> "none", before |-> <<>>, range |-> [start |-> 0, end |-> 0],
     interface |-> "", ret |-> "", port_no |-> 0, is_in |-> FALSE, size |-> 0,
     data_in |-> 0, data_out |-> 0, handler_ok |-> FALSE, rc |-> 0, invoked |-> <<>>]

\* The state vmm_io_port_init leaves: an empty table.
InitIO ==
    /\ ndebug = FALSE
    /\ config_vesa = FALSE
    /\ ram_regions = <<[start |-> 0, size |-> FourGiB]>>
    /\ e820_ret = NotCalled
    /\ pc = "idle"
    /\ args = NoArgs
    /\ err = 0
    /\ guest_cmd_addr = Indeterminate
    /\ guest_cmd_size = Indeterminate
    /\ vm_boot_info = 0
    /\ boot_info = ZeroBootParams
    /\ guest_mem = [a \in 1 .. FourGiB - 1 |-> Free]
    /\ trace = NoTrace
    /\ vcpu = [eax |-> 0, ebx |-> 0, ecx |-> 0, edx |-> 0, esi |-> 0, rip |-> 0]
    /\ io_list = <<>>
    /\ io_call = NoIoCall

AddHandler ==
    /\ \E range \in IoPortRanges, interface \in IoPortInterfaces :
         LET r == vmm_io_port_add_handler(io_list, range, interface)
         IN  /\ io_list' = r.list
             /\ io_call' = [NoIoCall EXCEPT !.op = "add", !.before = io_list,
                                            !.range = range, !.interface = interface,
                                            !.ret = r.ret]
    /\ UNCHANGED <<ndebug, config_vesa, ram_regions, e820_ret, bootvars>>

EmulateIo ==
    /\ \E port_no \in Ports, is_in \in BOOLEAN, size \in {1, 2, 4}, data \in {0, 7},
          h \in HandlerAnswers :
         LET r == emulate_io_handler(io_list, port_no, is_in, size, data, h)
         IN  io_call' = [NoIoCall EXCEPT !.op = "emulate", !.before = io_list,
                                         !.port_no = port_no, !.is_in = is_in,
                                         !.size = size, !.data_in = data,
                                         !.data_out = r.data,
                                         !.handler_ok = (r.invoked # <<>> /\ h.ok),
                                         !.rc = r.ret, !.invoked = r.invoked]
    /\ UNCHANGED <<ndebug, config_vesa, ram_regions, e820_ret, bootvars, io_list>>

NextIO == AddHandler \/ EmulateIo

SpecIO == InitIO /\ [][NextIO]_vars

\* --------------------------------- vmm_plat_init_guest_boot_structure
InitBoot ==
    /\ ndebug \in BOOLEAN
    /\ config_vesa \in BOOLEAN
    /\ ram_regions \in BootRegionLists
    /\ e820_ret = NotCalled
    /\ pc = "idle"
    /\ args = NoArgs
    /\ err = 0
    /\ guest_cmd_addr = Indeterminate
    /\ guest_cmd_size = Indeterminate
    /\ vm_boot_info = 0
    /\ boot_info = ZeroBootParams
    /\ guest_mem = [a \in 1 .. FourGiB - 1 |-> Free]
    /\ trace = NoTrace
    /\ vcpu \in {[eax |-> s, ebx |-> s, ecx |-> s, edx |-> s, esi |-> s, rip |-> s] :
                    s \in {0, 1}}
    /\ io_list = <<>>
    /\ io_call = NoIoCall

\* The call itself: the arguments are bound, the locals are not yet assigned.
CallInitGuestBootStructure ==
    /\ pc = "idle"
    /\ \E a \in Args : args' = a
    /\ pc' = "cmd_line"
    /\ UNCHANGED <<ndebug, config_vesa, ram_regions, e820_ret, err, guest_cmd_addr,
                   guest_cmd_size, vm_boot_info, boot_info, guest_mem, trace, vcpu,
                   iovars>>

\* Lines 255-256: make_guest_cmd_line (lines 66-78) and the assert on its result.
MakeGuestCmdLine ==
    /\ pc = "cmd_line"
    /\ \E cmd_addr \in vm_ram_allocate(Allocated), touched \in vm_ram_touch :
         LET len == Len(args.cmdline)
             e == IF cmd_addr = 0 THEN -1 ELSE touched
         IN  /\ err' = e
             /\ IF cmd_addr = 0
                THEN /\ touched = 0
                     /\ UNCHANGED <<guest_cmd_addr, guest_cmd_size, guest_mem>>
                     /\ trace' = [trace EXCEPT !.ran = @ \cup {"cmd_line"},
                                               !.failed = @ \cup {"cmd_alloc"}]
                ELSE /\ guest_cmd_addr' = cmd_addr
                     /\ guest_cmd_size' = len
                     /\ guest_mem' =
                          IF touched = 0
                          THEN [guest_mem EXCEPT
                                  ![cmd_addr] = make_guest_cmd_line_continued(args.cmdline)]
                          ELSE guest_mem
                     /\ trace' = [trace EXCEPT
                                    !.ran = @ \cup {"cmd_line"},
                                    !.failed = IF touched = 0 THEN @ ELSE @ \cup {"cmd_touch"}]
             /\ pc' = AfterAssert(e, ndebug, "boot_info_alloc")
    /\ UNCHANGED <<ndebug, config_vesa, ram_regions, e820_ret, args, vm_boot_info,
                   boot_info, vcpu, iovars>>

\* Lines 199-205 of make_guest_boot_info; on a failed allocation it returns -1
\* to the assert of line 261.
BootInfoAllocate ==
    /\ pc = "boot_info_alloc"
    /\ \E addr \in vm_ram_allocate(Allocated) :
         IF addr = 0
         THEN /\ err' = -1
              /\ trace' = [trace EXCEPT !.ran = @ \cup {"boot_info_alloc"},
                                        !.failed = @ \cup {"boot_info_alloc"}]
              /\ pc' = AfterAssert(-1, ndebug, "acpi")
              /\ UNCHANGED vm_boot_info
         ELSE /\ vm_boot_info' = addr
              /\ trace' = [trace EXCEPT !.ran = @ \cup {"boot_info_alloc"},
                                        !.bi_addr = addr]
              /\ pc' = "boot_info_hdr"
              /\ UNCHANGED err
    /\ UNCHANGED <<ndebug, config_vesa, ram_regions, e820_ret, args, guest_cmd_addr,
                   guest_cmd_size, boot_info, guest_mem, vcpu, iovars>>

\* Lines 208-217.
BootInfoInitHeader ==
    /\ pc = "boot_info_hdr"
    /\ boot_info' = BootInfoHeader(args)
    /\ trace' = [trace EXCEPT !.populated = {"hdr"}]
    /\ pc' = NextStep("boot_info_hdr")
    /\ UNCHANGED <<ndebug, config_vesa, ram_regions, e820_ret, args, err, guest_cmd_addr,
                   guest_cmd_size, vm_boot_info, guest_mem, vcpu, iovars>>

\* Line 221.
MakeGuestScreenInfo ==
    /\ pc = "screen_info"
    /\ \E o \in ScreenAnswers :
         LET r == make_guest_screen_info(boot_info.screen_info, config_vesa, o)
         IN  /\ boot_info' = [boot_info EXCEPT !.screen_info = r.info]
             /\ trace' = [trace EXCEPT !.populated = @ \cup {"screen_info"},
                                       !.screen = r.asked]
    /\ pc' = NextStep("screen_info")
    /\ UNCHANGED <<ndebug, config_vesa, ram_regions, e820_ret, args, err, guest_cmd_addr,
                   guest_cmd_size, vm_boot_info, guest_mem, vcpu, iovars>>

\* Line 224.  An assert inside make_guest_e820_map ends the program; entries
\* written behind the table (NDEBUG) either land in the rest of the struct or
\* bring the program down.
MakeGuestE820 ==
    /\ pc = "e820"
    /\ LET r == make_guest_e820_map(ram_regions, ndebug)
       IN  /\ e820_ret' = r
           /\ \/ /\ r.returned
                 /\ boot_info' = BootInfoE820(boot_info, r)
                 /\ trace' = [trace EXCEPT !.populated = @ \cup {"e820"}]
                 /\ pc' = NextStep("e820")
              \/ /\ ~r.returned
                 /\ pc' = "aborted"
                 /\ UNCHANGED <<boot_info, trace>>
              \/ /\ r.oob
                 /\ pc' = "crashed"
                 /\ UNCHANGED <<boot_info, trace>>
    /\ UNCHANGED <<ndebug, config_vesa, ram_regions, args, err, guest_cmd_addr,
                   guest_cmd_size, vm_boot_info, guest_mem, vcpu, iovars>>

\* Lines 227-233.  guest_cmd_addr and guest_cmd_size are indeterminate when
\* make_guest_cmd_line returned before assigning them.
BootInfoSetCmdLine ==
    /\ pc = "cmd_ptr"
    /\ \E a \in ReadLocal(guest_cmd_addr), n \in ReadLocal(guest_cmd_size) :
         boot_info' = BootInfoCmdLine(boot_info, a, n)
    /\ trace' = [trace EXCEPT !.populated = @ \cup {"cmd_line"}]
    /\ pc' = NextStep("cmd_ptr")
    /\ UNCHANGED <<ndebug, config_vesa, ram_regions, e820_ret, args, err, guest_cmd_addr,
                   guest_cmd_size, vm_boot_info, guest_mem, vcpu, iovars>>

\* Lines 236-243.
BootInfoSetRamdisk ==
    /\ pc = "ramdisk"
    /\ boot_info' = BootInfoRamdisk(boot_info, args.guest_ramdisk_load_addr,
                                    args.guest_ramdisk_size)
    /\ trace' = [trace EXCEPT !.populated = @ \cup {"ramdisk"}]
    /\ pc' = NextStep("ramdisk")
    /\ UNCHANGED <<ndebug, config_vesa, ram_regions, e820_ret, args, err, guest_cmd_addr,
                   guest_cmd_size, vm_boot_info, guest_mem, vcpu, iovars>>

\* Line 244 and the assert of line 261.
BootInfoCopyOut ==
    /\ pc = "copy_out"
    /\ \E touched \in vm_ram_touch :
         /\ err' = touched
         /\ IF touched = 0
            THEN /\ guest_mem' = [guest_mem EXCEPT
                                    ![vm_boot_info] = guest_elf_write_address(boot_info)]
                 /\ trace' = [trace EXCEPT !.bi_copies = @ + 1]
            ELSE /\ trace' = [trace EXCEPT !.failed = @ \cup {"boot_info_touch"}]
                 /\ UNCHANGED guest_mem
         /\ pc' = AfterAssert(touched, ndebug, "acpi")
    /\ UNCHANGED <<ndebug, config_vesa, ram_regions, e820_ret, args, guest_cmd_addr,
                   guest_cmd_size, vm_boot_info, boot_info, vcpu, iovars>>

\* Lines 263-264: make_guest_acpi_tables answers 0 or an error.
MakeGuestAcpiTables ==
    /\ pc = "acpi"
    /\ \E e \in {0, -1} :
         /\ err' = e
         /\ trace' = [trace EXCEPT !.ran = @ \cup {"acpi"},
                                   !.failed = IF e = 0 THEN @ ELSE @ \cup {"acpi"}]
         /\ pc' = AfterAssert(e, ndebug, "done")
    /\ UNCHANGED <<ndebug, config_vesa, ram_regions, e820_ret, args, guest_cmd_addr,
                   guest_cmd_size, vm_boot_info, boot_info, guest_mem, vcpu, iovars>>

\* vmm_init_guest_thread_state(vcpu, guest_entry_addr), once the boot
\* structure has been constructed.
VmmInitGuestThreadState ==
    /\ pc = "done"
    /\ \E guest_entry_addr \in EntryAddrs :
         /\ vcpu' = vmm_init_guest_thread_state(vcpu, vm_boot_info, guest_entry_addr)
         /\ trace' = [trace EXCEPT !.entry_addr = guest_entry_addr, !.vcpu_inits = 1]
    /\ UNCHANGED <<ndebug, config_vesa, ram_regions, e820_ret, pc, args, err,
                   guest_cmd_addr, guest_cmd_size, vm_boot_info, boot_info, guest_mem,
                   iovars>>

Next ==
    \/ CallInitGuestBootStructure
    \/ MakeGuestCmdLine
    \/ BootInfoAllocate
    \/ BootInfoInitHeader
    \/ MakeGuestScreenInfo
    \/ MakeGuestE820
    \/ BootInfoSetCmdLine
    \/ BootInfoSetRamdisk
    \/ BootInfoCopyOut
    \/ MakeGuestAcpiTables
    \/ VmmInitGuestThreadState

Spec == InitBoot /\ [][Next]_vars

\* ------------------------------------------- the E820 map on its own
InitE820 ==
    /\ ndebug \in BOOLEAN
    /\ config_vesa = FALSE
    /\ ram_regions \in RegionLists
    /\ e820_ret = NotCalled
    /\ pc = "e820"
    /\ args = NoArgs
    /\ err = 0
    /\ guest_cmd_addr = Indeterminate
    /\ guest_cmd_size = Indeterminate
    /\ vm_boot_info = 0
    /\ boot_info = ZeroBootParams
    /\ guest_mem = [a \in 1 .. FourGiB - 1 |-> Free]
    /\ trace = NoTrace
    /\ vcpu = [eax |-> 0, ebx |-> 0, ecx |-> 0, edx |-> 0, esi |-> 0, rip |-> 0]
    /\ io_list = <<>>
    /\ io_call = NoIoCall

MakeGuestE820Map ==
    /\ ~e820_ret.called
    /\ e820_ret' = make_guest_e820_map(ram_regions, ndebug)
    /\ UNCHANGED <<ndebug, config_vesa, ram_regions, bootvars, iovars>>

NextE820 == MakeGuestE820Map

SpecE820 == InitE820 /\ [][NextE820]_vars

EntryEnd(e) == e.addr + e.size

\* C1: for every non-empty, sorted, non-overlapping RAM region list within
\* [0, 4 GiB) whose map fits the table, the returned E820 map is sorted by
\* address, has no overlapping entries, covers exactly [0, 4 GiB) with no gap,
\* and every RAM region lies inside an entry of type RAM.
C1_E820MapCoversRam ==
    (e820_ret.called /\ e820_ret.returned /\ ~e820_ret.oob) =>
        LET m == e820_ret.map
            n == e820_ret.count
        IN  /\ m[1].addr = 0
            /\ \A k \in 1 .. n - 1 : EntryEnd(m[k]) = m[k + 1].addr
            /\ \A k \in 1 .. n - 1 : m[k].addr <= m[k + 1].addr
            /\ EntryEnd(m[n]) = FourGiB
            /\ \A i \in 1 .. Len(ram_regions) :
                 \E k \in 1 .. n :
                    /\ m[k].type = "E820_RAM"
                    /\ m[k].addr <= ram_regions[i].start
                    /\ ram_regions[i].start + ram_regions[i].size <= EntryEnd(m[k])

\* C9: every entry of the map make_guest_e820_map builds, from index 0 to the
\* returned count minus one, has non-zero length (the assertion of line 190).
C9_EveryEntryNonEmpty ==
    (e820_ret.called /\ ~e820_ret.oob /\ e820_ret.failed \in {"", "assert190"}) =>
        /\ e820_ret.returned
        /\ \A k \in 1 .. e820_ret.count :
              e820_ret.map[k].addr < e820_ret.map[k].addr + e820_ret.map[k].size

\* C10: make_guest_e820_map never writes an entry at an index >= E820MAX, and
\* a map it returns has at most E820MAX entries.
C10_NoWritePastE820MAX ==
    e820_ret.called =>
        /\ ~e820_ret.oob
        /\ (e820_ret.returned => e820_ret.count <= E820MAX)
\* ------------------------------------------------------------ claims
AllZero(rec) == \A f \in DOMAIN rec : rec[f] = 0

FullyPopulated(s, vbe, base, fbuffer_size) ==
    /\ s.orig_video_isVGA = 35
    /\ s.lfb_width = vbe.vbeModeInfoBlock.xRes
    /\ s.lfb_height = vbe.vbeModeInfoBlock.yRes
    /\ s.lfb_depth = vbe.vbeModeInfoBlock.bitsPerPixel
    /\ s.lfb_base = base
    /\ fbuffer_size = s.lfb_size * 65536
    /\ fbuffer_size >= vbe.vbeModeInfoBlock.bytesPerScanLine * vbe.vbeModeInfoBlock.yRes
    /\ fbuffer_size < vbe.vbeModeInfoBlock.bytesPerScanLine * vbe.vbeModeInfoBlock.yRes + 65536
    /\ s.lfb_linelength = vbe.vbeModeInfoBlock.bytesPerScanLine
    /\ s.red_size = vbe.vbeModeInfoBlock.redLen
    /\ s.red_pos = vbe.vbeModeInfoBlock.redOff
    /\ s.green_size = vbe.vbeModeInfoBlock.greenLen
    /\ s.green_pos = vbe.vbeModeInfoBlock.greenOff
    /\ s.blue_size = vbe.vbeModeInfoBlock.blueLen
    /\ s.blue_pos = vbe.vbeModeInfoBlock.blueOff
    /\ s.rsvd_size = vbe.vbeModeInfoBlock.rsvdLen
    /\ s.rsvd_pos = vbe.vbeModeInfoBlock.rsvdOff
    /\ s.vesapm_seg = vbe.vbeInterfaceSeg
    /\ s.vesapm_off = vbe.vbeInterfaceOff
    /\ s.pages = vbe.vbeModeInfoBlock.planes
    /\ s.orig_video_mode = 0

ScreenStepFailed ==
    \/ ~trace.screen.vbe_available
    \/ ~config_vesa
    \/ trace.screen.pm_reserve = "failed"
    \/ trace.screen.pm_map = "failed"
    \/ trace.screen.fb_reserve = "failed"
    \/ trace.screen.fb_map = "failed"

\* C2: after make_guest_screen_info the Screen Info block is either fully
\* populated from the VBE mode-info block or all zero, and it is all zero
\* whenever the VBE info is unavailable, VESA is not configured, or a
\* reservation or mapping step failed.
C2_ScreenInfoAllOrNothing ==
    "screen_info" \in trace.populated =>
        /\ \/ AllZero(boot_info.screen_info)
           \/ /\ ~ScreenStepFailed
              /\ FullyPopulated(boot_info.screen_info, trace.screen.vbe,
                                trace.screen.base, trace.screen.fbuffer_size)
        /\ ScreenStepFailed => AllZero(boot_info.screen_info)

C2_Witness ==
    /\ "screen_info" \in trace.populated
    /\ trace.screen.pm_map = "ok"
    /\ trace.screen.fb_map = "failed"
    /\ AllZero(boot_info.screen_info)

BootParamsBlocks == {a \in DOMAIN guest_mem : guest_mem[a].kind = "boot_params"}

\* C3: the guest memory of the boot-parameters structure is written at most
\* once, by the copy that follows the population of the header, the Screen
\* Info, the E820 map and the command-line and ramdisk fields; whatever the
\* guest-visible block holds equals the local structure field for field.
C3_SingleCopyOfCompleteStruct ==
    /\ trace.bi_copies <= 1
    /\ (trace.bi_copies = 0) = (BootParamsBlocks = {})
    /\ \A a \in BootParamsBlocks :
          /\ a = trace.bi_addr
          /\ trace.populated = FieldGroups
          /\ guest_mem[a].data = boot_info
          /\ guest_mem[a].data.e820_entries = e820_ret.count
          /\ guest_mem[a].data.hdr.version # 0
    /\ (pc \in {"acpi", "done"} /\ trace.bi_addr # 0
          /\ "boot_info_touch" \notin trace.failed) => trace.bi_copies = 1

C3_Witness ==
    /\ trace.bi_copies = 1
    /\ trace.bi_addr \in BootParamsBlocks
    /\ guest_mem[trace.bi_addr].data.e820_entries >= 3
    /\ guest_mem[trace.bi_addr].data.screen_info.orig_video_isVGA = 35

CmdLineFailed == {"cmd_alloc", "cmd_touch"} \cap trace.failed # {}
BootInfoFailed == {"boot_info_alloc", "boot_info_touch"} \cap trace.failed # {}

\* C4: when command-line placement fails the boot-parameters structure is
\* never allocated, populated or written and no boot-info address is recorded
\* on the VM; when the boot-parameters allocation or copy-out fails, ACPI
\* table generation does not run.
C4_StepsRunOnlyAfterSuccess ==
    /\ CmdLineFailed =>
          /\ "boot_info_alloc" \notin trace.ran
          /\ trace.populated = {}
          /\ trace.bi_copies = 0
          /\ vm_boot_info = 0
    /\ BootInfoFailed => "acpi" \notin trace.ran

BuiltSuccessfully == pc = "done" /\ trace.failed = {}

\* C5: after vmm_init_guest_thread_state on a VM whose boot structure was
\* built successfully, EAX, EBX, ECX and EDX are 0, the guest RIP is the entry
\* address and ESI is the guest address at which the boot-parameters
\* structure was allocated and written.
C5_VcpuEntryState ==
    (trace.vcpu_inits > 0 /\ BuiltSuccessfully) =>
        /\ vcpu.eax = 0 /\ vcpu.ebx = 0 /\ vcpu.ecx = 0 /\ vcpu.edx = 0
        /\ vcpu.rip = trace.entry_addr
        /\ vcpu.esi = trace.bi_addr
        /\ vcpu.esi \in BootParamsBlocks

C5_Witness ==
    /\ trace.vcpu_inits > 0
    /\ BuiltSuccessfully
    /\ trace.entry_addr = FourGiB - 1
    /\ vcpu.esi = 2

\* C6: the written header has version 0x0204, the ramdisk pointer and size of
\* the arguments and root device 0x0100 exactly when a non-zero ramdisk
\* address was supplied, and otherwise version 0x0202 with those three fields
\* zero; its signature is 0x53726448, its boot flag 0xAA55, its loader type
\* 0xFF and its relocatable flag true.
C6_WrittenHeader ==
    \A a \in BootParamsBlocks :
        LET h == guest_mem[a].data.hdr
        IN  /\ h.header = 1400005704
            /\ h.boot_flag = 43605
            /\ h.type_of_loader = 255
            /\ h.relocatable_kernel = TRUE
            /\ (h.version = 516) = (args.guest_ramdisk_load_addr # 0)
            /\ h.version \in {514, 516}
            /\ IF args.guest_ramdisk_load_addr # 0
               THEN /\ h.ramdisk_image = args.guest_ramdisk_load_addr
                    /\ h.ramdisk_size = args.guest_ramdisk_size
                    /\ h.root_dev = 256
               ELSE /\ h.ramdisk_image = 0
                    /\ h.ramdisk_size = 0
                    /\ h.root_dev = 0

C6_Witness ==
    \E a \in BootParamsBlocks :
        /\ guest_mem[a].data.hdr.version = 516
        /\ guest_mem[a].data.hdr.ramdisk_image = FourGiB - 2
        /\ guest_mem[a].data.hdr.ramdisk_size = 3

PortsOf(range) == {p \in Ports : range.start <= p /\ p <= range.end}

\* C7: add_handler with a range that intersects the range of an entry already
\* in the table fails with OverlapError and leaves the table as it was; so the
\* table's ranges are always pairwise disjoint and sorted by range start.
C7_OverlapRejected ==
    /\ (io_call.op = "add"
          /\ \E i \in 1 .. Len(io_call.before) :
                PortsOf(io_call.range) \cap PortsOf(io_call.before[i].range) # {})
       => (io_call.ret = "OverlapError" /\ io_list = io_call.before)
    /\ \A i, j \in 1 .. Len(io_list) :
          i < j => /\ io_list[i].range.start < io_list[j].range.start
                   /\ PortsOf(io_list[i].range) \cap PortsOf(io_list[j].range) = {}

C7_Witness ==
    /\ io_call.op = "add"
    /\ io_call.ret = "OverlapError"
    /\ Len(io_list) = 2
    /\ io_call.range.start < io_list[1].range.start
    /\ io_call.range.end > io_list[1].range.end

\* C8: emulate_io yields exactly one of HANDLED (0), UNHANDLED (1) and ERROR
\* (-1).  When no registered range holds the port the result is UNHANDLED, no
\* handler is invoked and the data buffer is unchanged; when one does, exactly
\* one handler of that entry is invoked once (port_in for an in, port_out for
\* an out) and the result is HANDLED if it succeeds and ERROR if it fails.
C8_DispatchTotal ==
    io_call.op = "emulate" =>
        LET holders == {i \in 1 .. Len(io_call.before) :
                           io_call.port_no \in PortsOf(io_call.before[i].range)}
        IN  /\ io_call.rc \in {0, 1, -1}
            /\ holders = {} =>
                  /\ io_call.rc = 1
                  /\ io_call.invoked = <<>>
                  /\ io_call.data_out = io_call.data_in
            /\ holders # {} =>
                  /\ Len(io_call.invoked) = 1
                  /\ \E i \in holders :
                        io_call.invoked[1].interface = io_call.before[i].interface
                  /\ io_call.invoked[1].fn = (IF io_call.is_in THEN "port_in" ELSE "port_out")
                  /\ io_call.invoked[1].port_no = io_call.port_no
                  /\ io_call.invoked[1].size = io_call.size
                  /\ (io_call.rc = 0) = io_call.handler_ok
                  /\ (io_call.rc = -1) = ~io_call.handler_ok

C8_Witness ==
    /\ io_call.op = "emulate"
    /\ Len(io_call.before) = 2
    /\ io_call.port_no = io_call.before[2].range.end
    /\ io_call.is_in
    /\ io_call.rc = 0
    /\ io_call.data_out # io_call.data_in

====
